---- MODULE Spec2Model ----
(***************************************************************************)
(* State-machine model of the io package (src/src/io/io.go): the transfer  *)
(* engine (Copy, CopyN, copyBuffer), LimitedReader, discard.ReadFrom,      *)
(* ReadAll and ReadAtLeast/ReadFull, run against nondeterministic sources  *)
(* and sinks that obey only the Reader/Writer contracts.                   *)
(***************************************************************************)
EXTENDS Integers, Sequences, FiniteSets, TLC

\* ------------------------------------------------------------------ bounds
\* Longest content of the underlying source.
MaxLen == 3
\* Longest caller buffer handed to ReadAtLeast, ReadFull and LimitedReader.Read.
MaxBuf == 3
\* Most Read calls the underlying source answers in one run.
MaxReads == 5

\* ------------------------------------------------------- program constants
\* size := 32 * 1024 in copyBuffer
DefaultCopySize == 32768
\* make([]byte, 8192) in blackHolePool.New
BlackHoleSize == 8192
\* make([]byte, 0, 512) in ReadAll
ReadAllCap == 512

\* ------------------------------------------------------------------ errors
nil == "nil"
EOF == "EOF"
ErrUnexpectedEOF == "ErrUnexpectedEOF"
ErrShortBuffer == "ErrShortBuffer"
ErrShortWrite == "ErrShortWrite"
errInvalidWrite == "errInvalidWrite"
\* An error of the underlying source, of the sink, of a fast-path delegate:
\* values the package does not define.
ErrSrc == "ErrSrc"
ErrSink == "ErrSink"
ErrDelegate == "ErrDelegate"

Bytes == {1, 2}

Min(a, b) == IF a < b THEN a ELSE b

SeqsUpTo(k) == UNION {[1..i -> Bytes] : i \in 0..k}

VARIABLES
    op,          \* the exported function (or method) under call
    pc,          \* where the call stands
    srcKind,     \* "exact": delivers its content, then EOF; "any": may fail or stop early
    srcData,     \* content of the underlying source
    srcPos,      \* bytes the underlying source has delivered
    srcStatus,   \* status of the underlying source's last Read ("none" before the first)
    srcReads,    \* Read calls the underlying source has answered
    lateRead,    \* a Read was issued to the underlying source after a non-nil status
    srcWriterTo, \* the source implements WriterTo
    dstKind,     \* "accept", "faulty", "discard" (io.Discard), "readerFrom", "none"
    sinkData,    \* bytes the sink has accepted
    sinkWrites,  \* Write calls the sink has answered
    limited,     \* the source is wrapped in a LimitedReader
    lN,          \* LimitedReader.N
    nArg,        \* CopyN's n, ReadAtLeast's min, LimitReader's n
    bufLen,      \* len(buf): the staging buffer, or the caller's buffer
    written,     \* copyBuffer's (and discard.ReadFrom's) named result
    err,         \* copyBuffer's (and discard.ReadFrom's) named result
    retN,        \* the call's returned count (ReadAtLeast's n while it runs)
    retErr,      \* the call's returned error (ReadAtLeast's err while it runs)
    b,           \* bytes delivered to the caller (ReadAll's b, buf[:n], p[:n])
    bCap,        \* cap(b) in ReadAll
    path,        \* how copyBuffer did the copy: "WriteTo", "ReadFrom", "staging"
    delegate,    \* what the fast-path delegate returned
    firstErr,    \* the earliest failure of a source or sink call during a Copy
    sinkEOF,     \* a sink Write has returned EOF as its error
    sinkFailed,  \* a sink Write has returned an error or a count other than len(p)
    borrowed,    \* scratch buffers taken from blackHolePool and not put back
    s,           \* a SectionReader: r (set once constructed), base, off, limit
    o,           \* an OffsetWriter: w (set once constructed), base, off
    call,        \* the last call on an adapter: arguments, the underlying calls, results
    blackHolePool, \* the shared pool: the scratch buffers in it, and those made so far
    rf,          \* the concurrent discard.ReadFrom calls, one record each
    buf,         \* the buf argument of CopyBuffer: whether it is nil, and len(buf)
    closer       \* the NopCloser wrapper around the source: its type, its Close calls

srcVars == <<srcKind, srcData, srcPos, srcStatus, srcReads, lateRead, srcWriterTo>>
dstVars == <<dstKind, sinkData, sinkWrites, sinkEOF, sinkFailed>>
limVars == <<limited, lN>>
callVars == <<op, pc, nArg, bufLen>>
copyVars == <<written, err, path, delegate, firstErr, borrowed>>
retVars == <<retN, retErr, b, bCap>>
xferVars == <<srcVars, dstVars, limVars, callVars, copyVars, retVars>>
winVars == <<s, o, call>>
poolVars == <<blackHolePool, rf>>
argVars == <<buf, closer>>
vars == <<xferVars, winVars, poolVars, argVars>>

NoDelegate == [n |-> 0, err |-> "none"]

\* No SectionReader, no OffsetWriter, no call on either yet.
NoReader == [r |-> FALSE, base |-> 0, off |-> 0, limit |-> 0]
NoWriter == [w |-> FALSE, base |-> 0, off |-> 0]
NoCall == [op |-> "none", a |-> 0, b |-> 0, pre |-> 0, called |-> FALSE, ca |-> 0,
           clen |-> 0, arg |-> <<>>, un |-> 0, ue |-> "nil", wn |-> 0, we |-> "nil",
           n |-> 0, err |-> "nil"]
WinIdle == s = NoReader /\ o = NoWriter /\ call = NoCall

\* An empty pool, and no ReadFrom under way.
EmptyPool == [free |-> {}, made |-> 0]
PoolIdle == blackHolePool = EmptyPool /\ rf = <<>>

\* No buffer supplied by the caller, no NopCloser around the source.
NilBuf == [nil |-> TRUE, len |-> 0]
NoCloser == [kind |-> "none", closes |-> 0, err |-> "none"]
ArgIdle == buf = NilBuf /\ closer = NoCloser

\* The transfer engine and the read helpers, with no call under way.
XferIdle ==
    /\ op = "none" /\ pc = "none"
    /\ srcKind = "exact" /\ srcData = <<>> /\ srcPos = 0 /\ srcStatus = "none"
    /\ srcReads = 0 /\ lateRead = FALSE /\ srcWriterTo = FALSE
    /\ dstKind = "none" /\ sinkData = <<>> /\ sinkWrites = 0
    /\ sinkEOF = FALSE /\ sinkFailed = FALSE
    /\ limited = FALSE /\ lN = 0 /\ nArg = 0 /\ bufLen = 0
    /\ written = 0 /\ err = "nil" /\ retN = 0 /\ retErr = "nil"
    /\ b = <<>> /\ bCap = 0 /\ path = "none" /\ delegate = NoDelegate
    /\ firstErr = "nil" /\ borrowed = 0

\* ------------------------------------------------------------- environment
\* Reader contract: 0 <= n <= len(p); n > 0 may come with EOF or an error, or
\* the status comes with n = 0 on a later call.
ReadOutcomes(plen) ==
    LET rem == Len(srcData) - srcPos
        m == Min(plen, rem)
    IN  IF srcKind = "exact"
        THEN {[n |-> k, err |-> e] : k \in 0..m, e \in {nil}}
             \cup {[n |-> k, err |-> EOF] : k \in {rem} \cap (0..m)}
        ELSE {[n |-> k, err |-> e] : k \in 0..m, e \in {nil, EOF, ErrSrc}}

\* The bytes a Read of n bytes delivers.
Chunk(n) == SubSeq(srcData, srcPos + 1, srcPos + n)

\* r.Read(p) on the underlying source, len(p) = plen, returning (n, e).
BaseRead(plen, n, e) ==
    /\ srcReads < MaxReads
    /\ [n |-> n, err |-> e] \in ReadOutcomes(plen)
    /\ srcPos' = srcPos + n
    /\ srcStatus' = e
    /\ srcReads' = srcReads + 1
    /\ lateRead' = (lateRead \/ srcStatus \notin {"none", nil})
    /\ UNCHANGED <<srcKind, srcData, srcWriterTo>>

\* Writer contract: n < len(p) must come with an error; copyBuffer checks the
\* count itself, so a faulty sink may also break the contract.
WriteOutcomes(plen) ==
    IF dstKind = "faulty"
    THEN {[n |-> k, err |-> e] : k \in (0 - 1)..(plen + 1), e \in {nil, EOF, ErrSink}}
    ELSE {[n |-> plen, err |-> nil]}

\* dst.Write(p) returning (nw, ew). discard.Write keeps nothing.
DstWrite(p, nw, ew) ==
    /\ [n |-> nw, err |-> ew] \in WriteOutcomes(Len(p))
    /\ sinkData' = IF dstKind = "discard" THEN sinkData
                   ELSE sinkData \o SubSeq(p, 1, Min(Len(p), nw))
    /\ sinkWrites' = sinkWrites + 1
    /\ sinkEOF' = (sinkEOF \/ ew = EOF)
    /\ sinkFailed' = (sinkFailed \/ ew # nil \/ nw # Len(p))
    /\ UNCHANGED dstKind

\* What src.WriteTo(dst) or dst.ReadFrom(src) of a type outside the package
\* may return.
DelegateOutcomes ==
    {[n |-> k, err |-> e] : k \in 0..MaxLen, e \in {nil, EOF, ErrDelegate}}

\* Mutant: the request is not cut down to the N bytes remaining.
LimitedReader_Read_NoClamp(plen, n, e) ==
    IF lN <= 0
    THEN /\ n = 0
         /\ e = EOF
         /\ UNCHANGED <<srcVars, limVars>>
    ELSE /\ BaseRead(plen, n, e)
         /\ lN' = lN - n
         /\ UNCHANGED limited

\* Mutant: the exhausted test reads N < 0, so N = 0 still reaches the source.
LimitedReader_Read_OffByOne(plen, n, e) ==
    IF lN < 0
    THEN /\ n = 0
         /\ e = EOF
         /\ UNCHANGED <<srcVars, limVars>>
    ELSE /\ BaseRead(IF plen > lN THEN lN ELSE plen, n, e)
         /\ lN' = lN - n
         /\ UNCHANGED limited

\* ----------------------------------------------------------- LimitedReader
LimitedReader_Read(plen, n, e) ==
    IF lN <= 0
    THEN /\ n = 0
         /\ e = EOF
         /\ UNCHANGED <<srcVars, limVars>>
    ELSE /\ BaseRead(IF plen > lN THEN lN ELSE plen, n, e)
         /\ lN' = lN - n
         /\ UNCHANGED limited

\* src.Read(p) as copyBuffer and discard.ReadFrom see it.
SrcRead(plen, n, e) ==
    IF limited
    THEN LimitedReader_Read(plen, n, e)
    ELSE BaseRead(plen, n, e) /\ UNCHANGED limVars

\* ---------------------------------------------------------------- copyBuffer
\* src.(WriterTo): a *LimitedReader has no WriteTo, whatever it wraps; of
\* the two NopCloser wrappers only nopCloserWriterTo has one.
SrcIsWriterTo(isLim) ==
    IF isLim THEN FALSE
    ELSE IF closer.kind = "none" THEN srcWriterTo
    ELSE closer.kind = "nopCloserWriterTo"

\* dst.(ReaderFrom): io.Discard, or a sink type outside the package.
DstIsReaderFrom == dstKind \in {"discard", "readerFrom"}

\* The staging buffer copyBuffer allocates when buf is nil.
BufSize(isLim, N) ==
    IF isLim /\ DefaultCopySize > N
    THEN IF N < 1 THEN 1 ELSE N
    ELSE DefaultCopySize

\* return wt.WriteTo(dst)
UseWriterTo ==
    \E d \in DelegateOutcomes :
        /\ written' = d.n
        /\ err' = d.err
        /\ delegate' = d
        /\ path' = "WriteTo"
        /\ pc' = "copied"
        /\ UNCHANGED <<bufLen, borrowed>>

\* return rt.ReadFrom(src): discard.ReadFrom takes its scratch buffer and
\* starts to drain; a ReaderFrom outside the package returns what it returns.
UseReaderFrom ==
    IF dstKind = "discard"
    THEN /\ borrowed' = borrowed + 1
         /\ path' = "ReadFrom"
         /\ pc' = "readfrom"
         /\ UNCHANGED <<written, err, delegate, bufLen>>
    ELSE \E d \in DelegateOutcomes :
             /\ written' = d.n
             /\ err' = d.err
             /\ delegate' = d
             /\ path' = "ReadFrom"
             /\ pc' = "copied"
             /\ UNCHANGED <<bufLen, borrowed>>

\* if buf == nil { ...; buf = make([]byte, size) }, then the loop.
UseStaging(isLim, N) ==
    /\ bufLen' = IF buf.nil THEN BufSize(isLim, N) ELSE buf.len
    /\ path' = "staging"
    /\ pc' = "loop"
    /\ UNCHANGED <<written, err, delegate, borrowed>>

\* Mutant: the sink's ReadFrom is tried before the source's WriteTo.
copyBufferEnter_ReaderFromFirst(isLim, N) ==
    /\ IF DstIsReaderFrom THEN UseReaderFrom
       ELSE IF SrcIsWriterTo(isLim) THEN UseWriterTo
       ELSE UseStaging(isLim, N)
    /\ UNCHANGED <<srcVars, dstVars, firstErr, retVars, op, nArg>>

\* copyBuffer up to its loop: the fast paths in the order the code tests them.
copyBufferEnter(isLim, N) ==
    /\ IF SrcIsWriterTo(isLim) THEN UseWriterTo
       ELSE IF DstIsReaderFrom THEN UseReaderFrom
       ELSE UseStaging(isLim, N)
    /\ UNCHANGED <<srcVars, dstVars, firstErr, retVars, op, nArg>>

\* Mutant: the count a Write reports is taken as it comes.
WriteResult_Unchecked(nr, nw, ew) == [n |-> nw, err |-> ew]

\* The count and error of one dst.Write as copyBuffer takes them.
WriteResult(nr, nw, ew) ==
    IF nw < 0 \/ nr < nw
    THEN [n |-> 0, err |-> IF ew = nil THEN errInvalidWrite ELSE ew]
    ELSE [n |-> nw, err |-> ew]

\* Mutant: a Read of no bytes ends the loop as EOF would.
LoopExit_ZeroIsEOF(nr, er, w) ==
    IF nr > 0 /\ w.err # nil THEN [err |-> w.err, stop |-> TRUE]
    ELSE IF nr > 0 /\ nr # w.n THEN [err |-> ErrShortWrite, stop |-> TRUE]
    ELSE IF er # nil THEN [err |-> IF er # EOF THEN er ELSE err, stop |-> TRUE]
    ELSE [err |-> err, stop |-> nr = 0]

\* Mutant: the source's EOF is returned like any other status.
LoopExit_KeepEOF(nr, er, w) ==
    IF nr > 0 /\ w.err # nil THEN [err |-> w.err, stop |-> TRUE]
    ELSE IF nr > 0 /\ nr # w.n THEN [err |-> ErrShortWrite, stop |-> TRUE]
    ELSE IF er # nil THEN [err |-> er, stop |-> TRUE]
    ELSE [err |-> err, stop |-> FALSE]

\* Mutant: a Write that took fewer bytes without an error goes unnoticed.
LoopExit_NoShortCheck(nr, er, w) ==
    IF nr > 0 /\ w.err # nil THEN [err |-> w.err, stop |-> TRUE]
    ELSE IF er # nil THEN [err |-> IF er # EOF THEN er ELSE err, stop |-> TRUE]
    ELSE [err |-> err, stop |-> FALSE]

\* Mutant: the loop goes on after a failed Write.
LoopExit_PastSinkError(nr, er, w) ==
    IF nr > 0 /\ w.err # nil THEN [err |-> w.err, stop |-> FALSE]
    ELSE IF nr > 0 /\ nr # w.n THEN [err |-> ErrShortWrite, stop |-> TRUE]
    ELSE IF er # nil THEN [err |-> IF er # EOF THEN er ELSE err, stop |-> TRUE]
    ELSE [err |-> err, stop |-> FALSE]

\* How one iteration ends, given the Read's (nr, er) and, when nr > 0, the
\* Write's result w: the error to return and whether the loop breaks.
LoopExit(nr, er, w) ==
    IF nr > 0 /\ w.err # nil THEN [err |-> w.err, stop |-> TRUE]
    ELSE IF nr > 0 /\ nr # w.n THEN [err |-> ErrShortWrite, stop |-> TRUE]
    ELSE IF er # nil THEN [err |-> IF er # EOF THEN er ELSE err, stop |-> TRUE]
    ELSE [err |-> err, stop |-> FALSE]

\* The earliest failure among the calls made so far: the Read comes before
\* the Write of the bytes it returned. EOF from the source is no failure.
Earliest(nr, er, w) ==
    IF firstErr # nil THEN firstErr
    ELSE IF er \notin {nil, EOF} THEN er
    ELSE IF nr > 0 /\ w.err # nil THEN w.err
    ELSE IF nr > 0 /\ nr # w.n THEN ErrShortWrite
    ELSE nil

\* One iteration of copyBuffer's loop in which src.Read returns (nr, er) and,
\* when nr > 0, dst.Write returns (nw, ew).
copyBuffer_Iter(nr, er, nw, ew) ==
    /\ pc = "loop"
    /\ SrcRead(bufLen, nr, er)
    /\ IF nr > 0
       THEN /\ DstWrite(Chunk(nr), nw, ew)
            /\ LET w == WriteResult(nr, nw, ew)
                   x == LoopExit(nr, er, w)
               IN  /\ written' = written + w.n
                   /\ err' = x.err
                   /\ pc' = IF x.stop THEN "copied" ELSE "loop"
                   /\ firstErr' = Earliest(nr, er, w)
       ELSE /\ nw = 0 /\ ew = nil
            /\ LET w == [n |-> 0, err |-> nil]
                   x == LoopExit(nr, er, w)
               IN  /\ err' = x.err
                   /\ pc' = IF x.stop THEN "copied" ELSE "loop"
                   /\ firstErr' = Earliest(nr, er, w)
                   /\ UNCHANGED <<dstVars, written>>
    /\ UNCHANGED <<op, nArg, bufLen, path, delegate, borrowed, retVars>>

\* One iteration of copyBuffer's loop.
copyBuffer ==
    \E nr \in 0..Len(srcData), er \in {nil, EOF, ErrSrc} :
        \E nw \in (0 - 1)..(nr + 1), ew \in {nil, EOF, ErrSink} :
            copyBuffer_Iter(nr, er, nw, ew)

\* --------------------------------------------------------- discard.ReadFrom
\* One iteration of discard.ReadFrom's loop; the scratch buffer goes back to
\* the pool when the source reports a status.
discard_ReadFrom ==
    /\ pc = "readfrom"
    /\ \E n \in 0..Len(srcData), e \in {nil, EOF, ErrSrc} :
        /\ SrcRead(BlackHoleSize, n, e)
        /\ written' = written + n
        /\ firstErr' = IF firstErr = nil /\ e \notin {nil, EOF} THEN e ELSE firstErr
        /\ IF e # nil
           THEN /\ borrowed' = borrowed - 1
                /\ err' = IF e = EOF THEN nil ELSE e
                /\ pc' = "copied"
           ELSE /\ pc' = "readfrom"
                /\ UNCHANGED <<borrowed, err>>
    /\ UNCHANGED <<dstVars, op, nArg, bufLen, path, delegate, retVars>>

\* ------------------------------------------------------------- Copy, CopyN
\* Copy(dst, src): copyBuffer(dst, src, nil).
Copy ==
    /\ pc = "start"
    /\ op = "Copy"
    /\ copyBufferEnter(limited, lN)
    /\ UNCHANGED limVars

Copy_Return ==
    /\ pc = "copied"
    /\ op = "Copy"
    /\ retN' = written
    /\ retErr' = err
    /\ pc' = "done"
    /\ UNCHANGED <<srcVars, dstVars, limVars, op, nArg, bufLen, copyVars, b, bCap>>

\* CopyN(dst, src, n): Copy(dst, LimitReader(src, n)).
CopyN ==
    /\ pc = "start"
    /\ op = "CopyN"
    /\ limited' = TRUE
    /\ lN' = nArg
    /\ copyBufferEnter(TRUE, nArg)

\* Mutant: a source that ran dry early is not reported.
CopyN_Result_NoEOF(w, e, n) ==
    IF w = n THEN [n |-> n, err |-> nil]
    ELSE [n |-> w, err |-> e]

\* What CopyN makes of Copy's (w, e).
CopyN_Result(w, e, n) ==
    IF w = n THEN [n |-> n, err |-> nil]
    ELSE IF w < n /\ e = nil THEN [n |-> w, err |-> EOF]
    ELSE [n |-> w, err |-> e]

CopyN_Return ==
    /\ pc = "copied"
    /\ op = "CopyN"
    /\ retN' = CopyN_Result(written, err, nArg).n
    /\ retErr' = CopyN_Result(written, err, nArg).err
    /\ pc' = "done"
    /\ UNCHANGED <<srcVars, dstVars, limVars, op, nArg, bufLen, copyVars, b, bCap>>

\* ------------------------------------------------------------------ ReadAll
\* One iteration of ReadAll's loop; the first one starts from
\* b := make([]byte, 0, 512). When b is full, append picks a larger capacity.
ReadAll ==
    /\ \/ pc = "start" /\ op = "ReadAll"
       \/ pc = "readall"
    /\ LET cap0 == IF pc = "start" THEN ReadAllCap ELSE bCap
       IN  \E cap1 \in (IF Len(b) = cap0 THEN {cap0 + 1, 2 * cap0} ELSE {cap0}) :
           \E n \in 0..Len(srcData), e \in {nil, EOF, ErrSrc} :
               /\ SrcRead(cap1 - Len(b), n, e)
               /\ bCap' = cap1
               /\ b' = b \o Chunk(n)
               /\ IF e # nil
                  THEN /\ retErr' = IF e = EOF THEN nil ELSE e
                       /\ retN' = Len(b) + n
                       /\ pc' = "done"
                  ELSE /\ pc' = "readall"
                       /\ UNCHANGED <<retN, retErr>>
    /\ UNCHANGED <<dstVars, op, nArg, bufLen, copyVars>>

\* -------------------------------------------------------------- ReadAtLeast
\* Mutant: EOF after some bytes is not turned into ErrUnexpectedEOF.
ReadAtLeast_Finish_NoUpgrade(n, e, min) ==
    IF n >= min THEN nil ELSE e

\* Mutant: a status that arrives with the min-th byte is not dropped.
ReadAtLeast_Finish_KeepErr(n, e, min) ==
    IF n > 0 /\ n < min /\ e = EOF THEN ErrUnexpectedEOF ELSE e

\* The error ReadAtLeast returns once its loop has ended with (n, e).
ReadAtLeast_Finish(n, e, min) ==
    IF n >= min THEN nil
    ELSE IF n > 0 /\ e = EOF THEN ErrUnexpectedEOF
    ELSE e

\* ReadAtLeast(r, buf, min) up to its first Read.
ReadAtLeastEnter(min) ==
    /\ nArg' = min
    /\ IF bufLen < min
       THEN /\ retN' = 0
            /\ retErr' = ErrShortBuffer
            /\ pc' = "done"
       ELSE IF retN < min /\ retErr = nil
       THEN /\ pc' = "readatleast"
            /\ UNCHANGED <<retN, retErr>>
       ELSE /\ retErr' = ReadAtLeast_Finish(retN, retErr, min)
            /\ pc' = "done"
            /\ UNCHANGED retN
    /\ UNCHANGED <<srcVars, dstVars, limVars, op, bufLen, copyVars, b, bCap>>

ReadAtLeast ==
    /\ pc = "start"
    /\ op = "ReadAtLeast"
    /\ ReadAtLeastEnter(nArg)

\* ReadFull(r, buf): ReadAtLeast(r, buf, len(buf)).
ReadFull ==
    /\ pc = "start"
    /\ op = "ReadFull"
    /\ ReadAtLeastEnter(bufLen)

\* Mutant: the loop goes on until min bytes are there, whatever the status.
ReadAtLeast_Continues_AnyStatus(n, e, min) == n < min

\* The loop condition of ReadAtLeast: n < min && err == nil.
ReadAtLeast_Continues(n, e, min) == n < min /\ e = nil

\* One iteration of ReadAtLeast's loop: nn, err = r.Read(buf[n:]); n += nn.
ReadAtLeast_Loop ==
    /\ pc = "readatleast"
    /\ \E nn \in 0..Len(srcData), e \in {nil, EOF, ErrSrc} :
        /\ SrcRead(bufLen - retN, nn, e)
        /\ retN' = retN + nn
        /\ b' = b \o Chunk(nn)
        /\ IF ReadAtLeast_Continues(retN + nn, e, nArg)
           THEN /\ retErr' = e
                /\ pc' = "readatleast"
           ELSE /\ retErr' = ReadAtLeast_Finish(retN + nn, e, nArg)
                /\ pc' = "done"
    /\ UNCHANGED <<dstVars, op, nArg, bufLen, copyVars, bCap>>

\* ------------------------------------------------- LimitedReader, by itself
\* l.Read(p) on l = LimitReader(r, n), for any len(p), any number of times.
LimitedReader_Call ==
    /\ pc = "idle"
    /\ op = "LimitedReader"
    /\ \E plen \in 0..MaxBuf, n \in 0..Len(srcData), e \in {nil, EOF, ErrSrc} :
        /\ LimitedReader_Read(plen, n, e)
        /\ bufLen' = plen
        /\ retN' = n
        /\ retErr' = e
        /\ b' = b \o Chunk(n)
    /\ UNCHANGED <<dstVars, op, pc, nArg, copyVars, bCap>>

\* ------------------------------------------------------------ specification
Ops == {"Copy", "CopyN", "ReadAll", "ReadAtLeast", "ReadFull", "LimitedReader"}

Init ==
    /\ op \in Ops
    /\ pc = IF op = "LimitedReader" THEN "idle" ELSE "start"
    /\ srcKind \in {"exact", "any"}
    /\ srcData \in SeqsUpTo(MaxLen)
    /\ srcPos = 0
    /\ srcStatus = "none"
    /\ srcReads = 0
    /\ lateRead = FALSE
    /\ srcWriterTo \in (IF op \in {"Copy", "CopyN"} THEN BOOLEAN ELSE {FALSE})
    /\ dstKind \in (IF op \in {"Copy", "CopyN"}
                    THEN {"accept", "faulty", "discard", "readerFrom"}
                    ELSE {"none"})
    /\ sinkData = <<>>
    /\ sinkWrites = 0
    /\ sinkEOF = FALSE
    /\ sinkFailed = FALSE
    /\ nArg \in (IF op \in {"CopyN", "LimitedReader"} THEN (0 - 1)..(MaxLen + 1)
                 ELSE IF op = "ReadAtLeast" THEN (0 - 1)..(MaxBuf + 1)
                 ELSE {0})
    /\ limited = (op = "LimitedReader")
    /\ lN = IF op = "LimitedReader" THEN nArg ELSE 0
    /\ bufLen \in (IF op \in {"ReadAtLeast", "ReadFull"} THEN 0..MaxBuf ELSE {0})
    /\ written = 0
    /\ err = nil
    /\ retN = 0
    /\ retErr = IF op = "LimitedReader" THEN "none" ELSE nil
    /\ b = <<>>
    /\ bCap = 0
    /\ path = "none"
    /\ delegate = NoDelegate
    /\ firstErr = nil
    /\ borrowed = 0
    /\ WinIdle
    /\ PoolIdle
    /\ ArgIdle

Next ==
    \/ Copy /\ UNCHANGED <<winVars, poolVars, argVars>>
    \/ CopyN /\ UNCHANGED <<winVars, poolVars, argVars>>
    \/ copyBuffer /\ UNCHANGED <<winVars, poolVars, argVars>>
    \/ discard_ReadFrom /\ UNCHANGED <<winVars, poolVars, argVars>>
    \/ Copy_Return /\ UNCHANGED <<winVars, poolVars, argVars>>
    \/ CopyN_Return /\ UNCHANGED <<winVars, poolVars, argVars>>
    \/ ReadAll /\ UNCHANGED <<winVars, poolVars, argVars>>
    \/ ReadAtLeast /\ UNCHANGED <<winVars, poolVars, argVars>>
    \/ ReadFull /\ UNCHANGED <<winVars, poolVars, argVars>>
    \/ ReadAtLeast_Loop /\ UNCHANGED <<winVars, poolVars, argVars>>
    \/ LimitedReader_Call /\ UNCHANGED <<winVars, poolVars, argVars>>

Spec == Init /\ [][Next]_vars

\* ================================================================== claims
L == Len(srcData)

\* C1 as stated, for the staging loop: for every source that delivers exactly
\* L bytes and then EOF and every sink, Copy returns (L, nil) and the sink
\* has received exactly the source's bytes in order.
C1_Original ==
    (op = "Copy" /\ pc = "done" /\ path = "staging" /\ srcKind = "exact")
        => (retN = L /\ retErr = nil /\ sinkData = srcData)

\* C1 amended: for every source that delivers exactly L bytes and then EOF,
\* in any chunking, and every sink that accepts each Write in full without
\* error, Copy returns (L, nil) and the sink has received exactly the
\* source's L bytes in source order; io.Discard, which drains the source
\* through its ReadFrom and keeps nothing, returns (L, nil) as well.
C1_CopyDeliversAll ==
    (op = "Copy" /\ pc = "done" /\ srcKind = "exact" /\ ~srcWriterTo)
        => /\ dstKind = "accept" =>
                (path = "staging" /\ retN = L /\ retErr = nil /\ sinkData = srcData)
           /\ dstKind = "discard" =>
                (path = "ReadFrom" /\ retN = L /\ retErr = nil /\ srcPos = L)

C1_Witness ==
    /\ op = "Copy" /\ pc = "done" /\ srcKind = "exact" /\ dstKind = "accept"
    /\ L >= 2 /\ sinkWrites >= 2 /\ srcStatus = EOF
    /\ retN = L /\ sinkData = srcData

\* C2: for a source holding L bytes and a sink that accepts everything,
\* CopyN returns (n, nil) for 0 <= n <= L and (L, EOF) for n > L.
C2_CopyN ==
    (op = "CopyN" /\ pc = "done" /\ srcKind = "exact"
        /\ dstKind \in {"accept", "discard"} /\ nArg >= 0)
        => IF nArg <= L
           THEN retN = nArg /\ retErr = nil
           ELSE retN = L /\ retErr = EOF

C2_Witness ==
    /\ op = "CopyN" /\ pc = "done" /\ srcKind = "exact" /\ dstKind = "accept"
    /\ L >= 1 /\ nArg > L /\ retN = L /\ retErr = EOF /\ sinkData = srcData

\* C3 as stated, for sinks that are plain Writers or io.Discard: on every
\* return of CopyN(dst, src, n), for every n, written == n if and only if
\* err == nil.
C3_Original ==
    (op = "CopyN" /\ pc = "done" /\ dstKind # "readerFrom")
        => (retN = nArg <=> retErr = nil)

\* C4 as stated, for the staging loop and ReadAll: the error Copy returns and
\* the error ReadAll returns is never EOF, for every source and sink.
C4_Original ==
    (pc = "done" /\ (op = "ReadAll" \/ (op = "Copy" /\ path = "staging")))
        => retErr # EOF

\* C4 amended: EOF from the source's Read is never propagated out of Copy or
\* ReadAll (it ends the transfer with a nil error): ReadAll never returns
\* EOF, and Copy returns EOF only when a Write of the sink, or the fast-path
\* delegate, itself returned EOF.
C4_SourceEOFNotPropagated ==
    /\ (op = "ReadAll" /\ pc = "done") => retErr # EOF
    /\ (op = "Copy" /\ pc = "done" /\ retErr = EOF)
            => (sinkEOF \/ delegate.err = EOF)
    /\ (op = "ReadAll" /\ pc = "done" /\ srcStatus = EOF) => retErr = nil
    /\ (op = "Copy" /\ pc = "done" /\ path = "staging" /\ srcStatus = EOF
            /\ dstKind = "accept") => retErr = nil

C4_Witness ==
    /\ op = "Copy" /\ pc = "done" /\ path = "staging"
    /\ srcStatus = EOF /\ retErr = nil /\ retN > 0 /\ dstKind = "accept"

\* C5 as stated: when more than one failure occurs during one Copy, the
\* error Copy returns is the one that occurred earliest in the sequence of
\* source and sink calls.
C5_Original ==
    (op = "Copy" /\ pc = "done" /\ path = "staging" /\ firstErr # nil)
        => retErr = firstErr

\* C6: Copy delegates to src.WriteTo when the source implements WriterTo, even
\* if the sink implements ReaderFrom; otherwise to dst.ReadFrom when the sink
\* implements ReaderFrom. On either fast path copyBuffer allocates no staging
\* buffer, issues no Read (outside the delegate) and no Write, and Copy
\* returns exactly the delegate's (count, status).
C6_FastPathOrder ==
    (op = "Copy" /\ pc \in {"readfrom", "loop", "copied", "done"})
        => /\ srcWriterTo => path = "WriteTo"
           /\ (~srcWriterTo /\ DstIsReaderFrom) => path = "ReadFrom"
           /\ (~srcWriterTo /\ ~DstIsReaderFrom) => path = "staging"
           /\ path \in {"WriteTo", "ReadFrom"} => (bufLen = 0 /\ sinkWrites = 0)
           /\ (path = "WriteTo" \/ dstKind = "readerFrom") =>
                (pc # "readfrom" /\ srcReads = 0
                    /\ written = delegate.n /\ err = delegate.err)
           /\ pc = "done" => (retN = written /\ retErr = err)

C6_Witness ==
    /\ op = "Copy" /\ pc = "done" /\ srcWriterTo /\ dstKind = "readerFrom"
    /\ path = "WriteTo" /\ retN = delegate.n /\ retN > 0 /\ retErr = ErrDelegate

\* C7: ReadFull on a source holding k bytes before EOF, in any chunking:
\* (len(buf), nil) if k >= len(buf); (k, ErrUnexpectedEOF) if 0 < k < len(buf);
\* (0, EOF) if k = 0 < len(buf).
C7_ReadFull ==
    (op = "ReadFull" /\ pc = "done" /\ srcKind = "exact")
        => IF L >= bufLen THEN retN = bufLen /\ retErr = nil
           ELSE IF L > 0 THEN retN = L /\ retErr = ErrUnexpectedEOF
           ELSE retN = 0 /\ retErr = EOF

C7_Witness ==
    /\ op = "ReadFull" /\ pc = "done" /\ srcKind = "exact"
    /\ 0 < L /\ L < bufLen /\ srcReads >= 2
    /\ retN = L /\ retErr = ErrUnexpectedEOF

\* C8: on every return of ReadAtLeast, n >= min iff err == nil; a buffer
\* shorter than min gives (0, ErrShortBuffer) with no source Read; a source
\* failure after fewer than min bytes is reported (EOF after some bytes as
\* ErrUnexpectedEOF); a failure that arrives with min bytes read is dropped.
C8_ReadAtLeast ==
    (op = "ReadAtLeast" /\ pc = "done")
        => /\ retN >= nArg <=> retErr = nil
           /\ bufLen < nArg => (retN = 0 /\ retErr = ErrShortBuffer /\ srcReads = 0)
           /\ (bufLen >= nArg /\ retN < nArg) =>
                (/\ srcStatus \in {EOF, ErrSrc}
                 /\ retErr = IF srcStatus = EOF /\ retN > 0
                             THEN ErrUnexpectedEOF ELSE srcStatus)
           /\ retN <= bufLen
           /\ retN = Len(b)

C8_Witness ==
    /\ op = "ReadAtLeast" /\ pc = "done"
    /\ nArg >= 2 /\ retN >= nArg /\ srcReads >= 2
    /\ srcStatus = ErrSrc /\ retErr = nil

\* C9: a LimitedReader with limit N >= 0 over a source that can supply more
\* than N bytes delivers at most N bytes in total over any Reads with any
\* buffer sizes, and once N bytes are delivered the next Read returns (0, EOF).
C9_LimitedReaderBound ==
    [][(op = "LimitedReader" /\ nArg >= 0 /\ L > nArg)
        => /\ Len(b') <= nArg
           /\ Len(b) = nArg => (retN' = 0 /\ retErr' = EOF)]_vars

C9_Witness ==
    /\ op = "LimitedReader" /\ nArg >= 2 /\ L > nArg /\ srcReads >= 2
    /\ Len(b) = nArg /\ retN = 0 /\ retErr = EOF /\ bufLen > 0

\* C10: LimitedReader.N never increases across Read calls, and once N <= 0
\* every later Read returns (0, EOF) without a Read of the underlying source
\* (N <= 0 is absorbing).
C10_LimitedReaderAbsorbing ==
    [][/\ limited => lN' <= lN
       /\ (limited /\ lN <= 0) => (lN' = lN /\ srcReads' = srcReads)
       /\ (op = "LimitedReader" /\ lN <= 0) => (retN' = 0 /\ retErr' = EOF)]_vars

C10_Witness ==
    /\ op = "LimitedReader" /\ nArg >= 1 /\ lN = 0 /\ srcStatus = nil
    /\ srcReads >= 1 /\ retN = 0 /\ retErr = EOF /\ srcPos < L

\* ------------------------------------------------------------------------
\* Windowed adapters: SectionReader and OffsetWriter.
\* int64 is modelled as a two's-complement integer of IntBits bits; Go's
\* signed arithmetic wraps around silently.
\* ------------------------------------------------------------------------
IntBits == 4

MaxP == 2

Modulus == 2 ^ IntBits

maxint64 == (2 ^ (IntBits - 1)) - 1

minint64 == 0 - (2 ^ (IntBits - 1))

Int64 == minint64 .. maxint64

Wrap(x) == ((x - minint64) % Modulus) + minint64

SeekStart == 0

SeekCurrent == 1

SeekEnd == 2

errWhence == "errWhence"

errOffset == "errOffset"

panic == "panic"

\* Arguments the callers pass: window bases, window lengths, seek and
\* read-at offsets (both ends of the integer range and values around zero),
\* whence values (3 is not a valid whence) and buffer lengths.
Edge == {minint64, maxint64}

Bases == Edge \cup {-2, 0, 2}

Lengths == Edge \cup {-1, 0, 1, 3, 5}

Offsets == Edge \cup {-3, -1, 0, 1, 2}

Whences == {SeekStart, SeekCurrent, SeekEnd, 3}

PLens == 0 .. MaxP

\* The ReaderAt contract: 0 <= n <= len(p), and n < len(p) comes with a
\* non-nil error; a full read may report nil or EOF.
ReadAtOutcomes(plen) ==
    {out \in (0 .. plen) \X {nil, EOF, ErrSrc} : out[1] < plen => out[2] # nil}

\* The WriterAt contract: 0 <= n <= len(p), and n < len(p) comes with a
\* non-nil error.
WriteAtOutcomes(plen) ==
    {out \in (0 .. plen) \X {nil, ErrSink} : out[1] < plen => out[2] # nil}

\* ------------------------------------------------------------------------
\* SectionReader
\* ------------------------------------------------------------------------
\* limit as NewSectionReader computes it; maxint64 - n is an int64
\* subtraction and wraps like any other.
NewSectionReader_remaining(off, n) ==
    IF off <= Wrap(maxint64 - n) THEN Wrap(n + off) ELSE maxint64

NewSectionReader(off, n) ==
    /\ ~s.r /\ ~o.w
    /\ s' = [r |-> TRUE, base |-> off, off |-> off,
             limit |-> NewSectionReader_remaining(off, n)]
    /\ call' = [NoCall EXCEPT !.op = "NewSectionReader", !.a = off, !.b = n, !.pre = off]
    /\ UNCHANGED o

\* p = p[0:max] when len(p) > max; the length of the slice handed on.
SectionReader_Clamp_None(plen, max) == plen

SectionReader_Clamp(plen, max) == IF plen > max THEN max ELSE plen

\* A call that stops in a run-time panic (slice bounds out of range).
Panicked(c) == [c EXCEPT !.err = panic]

SectionReader_Read(plen) ==
    /\ s.r
    /\ UNCHANGED o
    /\ LET c == [NoCall EXCEPT !.op = "Read", !.a = plen, !.pre = s.off]
       IN  IF s.off >= s.limit
           THEN /\ s' = s
                /\ call' = [c EXCEPT !.err = EOF]
           ELSE LET max == Wrap(s.limit - s.off)
                    len1 == SectionReader_Clamp(plen, max)
                IN  IF len1 < 0
                    THEN /\ s' = s
                         /\ call' = Panicked(c)
                    ELSE \E out \in ReadAtOutcomes(len1) :
                            /\ s' = [s EXCEPT !.off = Wrap(s.off + out[1])]
                            /\ call' = [c EXCEPT !.called = TRUE, !.ca = s.off,
                                                 !.clen = len1, !.un = out[1],
                                                 !.ue = out[2], !.n = out[1],
                                                 !.err = out[2]]

\* The switch of Seek: the absolute offset a whence resolves to.
SeekResolve(offset, whence, base, off, limit) ==
    CASE whence = SeekStart -> Wrap(offset + base)
      [] whence = SeekCurrent -> Wrap(offset + off)
      [] whence = SeekEnd -> Wrap(offset + limit)

\* The cursor after Seek: a resolved offset below base is rejected before
\* the cursor is assigned.
SectionReader_Seek_off_Unchecked(cur, abs, base, limit) == abs

SectionReader_Seek_off_Clamped(cur, abs, base, limit) ==
    IF abs < base THEN cur ELSE IF abs > limit THEN limit ELSE abs

SectionReader_Seek_off(cur, abs, base, limit) == IF abs < base THEN cur ELSE abs

SectionReader_Seek(offset, whence) ==
    /\ s.r
    /\ UNCHANGED o
    /\ LET c == [NoCall EXCEPT !.op = "Seek", !.a = offset, !.b = whence, !.pre = s.off]
       IN  IF whence \notin {SeekStart, SeekCurrent, SeekEnd}
           THEN /\ s' = s
                /\ call' = [c EXCEPT !.err = errWhence]
           ELSE LET abs == SeekResolve(offset, whence, s.base, s.off, s.limit)
                IN  /\ s' = [s EXCEPT !.off = SectionReader_Seek_off(s.off, abs, s.base, s.limit)]
                    /\ call' = IF abs < s.base
                               THEN [c EXCEPT !.err = errOffset]
                               ELSE [c EXCEPT !.ca = abs, !.n = Wrap(abs - s.base)]

\* The first test of ReadAt: the offset lies outside [0, limit - base).
SectionReader_Outside(off, base, limit) == off < 0 \/ off >= Wrap(limit - base)

\* The status of a clamped ReadAt: nil becomes EOF.
ClampedStatus_Keep(e) == e

ClampedStatus(e) == IF e = nil THEN EOF ELSE e

SectionReader_ReadAt(plen, off) ==
    /\ s.r
    /\ UNCHANGED <<s, o>>
    /\ LET c == [NoCall EXCEPT !.op = "ReadAt", !.a = plen, !.b = off, !.pre = s.off]
       IN  IF SectionReader_Outside(off, s.base, s.limit)
           THEN call' = [c EXCEPT !.err = EOF]
           ELSE LET abs == Wrap(off + s.base)
                    max == Wrap(s.limit - abs)
                IN  IF plen > max
                    THEN IF max < 0
                         THEN call' = Panicked(c)
                         ELSE \E out \in ReadAtOutcomes(max) :
                                 call' = [c EXCEPT !.called = TRUE, !.ca = abs,
                                                   !.clen = max, !.un = out[1],
                                                   !.ue = out[2], !.n = out[1],
                                                   !.err = ClampedStatus(out[2])]
                    ELSE \E out \in ReadAtOutcomes(plen) :
                            call' = [c EXCEPT !.called = TRUE, !.ca = abs,
                                              !.clen = plen, !.un = out[1],
                                              !.ue = out[2], !.n = out[1],
                                              !.err = out[2]]

\* ------------------------------------------------------------------------
\* OffsetWriter
\* ------------------------------------------------------------------------
NewOffsetWriter(off) ==
    /\ ~s.r /\ ~o.w
    /\ o' = [w |-> TRUE, base |-> off, off |-> off]
    /\ call' = [NoCall EXCEPT !.op = "NewOffsetWriter", !.a = off, !.pre = off]
    /\ UNCHANGED s

OffsetWriter_Write(plen) ==
    /\ o.w
    /\ UNCHANGED s
    /\ \E out \in WriteAtOutcomes(plen) :
          /\ o' = [o EXCEPT !.off = Wrap(o.off + out[1])]
          /\ call' = [NoCall EXCEPT !.op = "Write", !.a = plen, !.pre = o.off,
                                    !.called = TRUE, !.ca = o.off, !.clen = plen,
                                    !.un = out[1], !.ue = out[2], !.n = out[1],
                                    !.err = out[2]]

\* off += o.base: the absolute position WriteAt writes at.
OffsetWriter_WriteAt_off_FromCursor(off, base, cur) == Wrap(off + cur)

OffsetWriter_WriteAt_off(off, base, cur) == Wrap(off + base)

OffsetWriter_WriteAt(plen, off) ==
    /\ o.w
    /\ UNCHANGED <<s, o>>
    /\ \E out \in WriteAtOutcomes(plen) :
          call' = [NoCall EXCEPT !.op = "WriteAt", !.a = plen, !.b = off, !.pre = o.off,
                                 !.called = TRUE,
                                 !.ca = OffsetWriter_WriteAt_off(off, o.base, o.off),
                                 !.clen = plen, !.un = out[1], !.ue = out[2],
                                 !.n = out[1], !.err = out[2]]

\* The whence values OffsetWriter.Seek resolves; every other value takes the
\* default branch of the switch.
OffsetWriter_Whences_WithEnd == {SeekStart, SeekCurrent, SeekEnd}

OffsetWriter_Whences == {SeekStart, SeekCurrent}

OffsetWriter_Resolve(offset, whence, base, off) ==
    IF whence = SeekStart THEN Wrap(offset + base) ELSE Wrap(offset + off)

OffsetWriter_Seek(offset, whence) ==
    /\ o.w
    /\ UNCHANGED s
    /\ LET c == [NoCall EXCEPT !.op = "Seek", !.a = offset, !.b = whence, !.pre = o.off]
       IN  IF whence \notin OffsetWriter_Whences
           THEN /\ o' = o
                /\ call' = [c EXCEPT !.err = errWhence]
           ELSE LET abs == OffsetWriter_Resolve(offset, whence, o.base, o.off)
                IN  IF abs < o.base
                    THEN /\ o' = o
                         /\ call' = [c EXCEPT !.err = errOffset]
                    ELSE /\ o' = [o EXCEPT !.off = abs]
                         /\ call' = [c EXCEPT !.ca = abs, !.n = Wrap(abs - o.base)]

WindowInit == XferIdle /\ WinIdle /\ PoolIdle /\ ArgIdle

WindowNext ==
    \/ \E off \in Bases, n \in Lengths :
          NewSectionReader(off, n) /\ UNCHANGED <<xferVars, poolVars, argVars>>
    \/ \E plen \in PLens :
          SectionReader_Read(plen) /\ UNCHANGED <<xferVars, poolVars, argVars>>
    \/ \E offset \in Offsets, whence \in Whences :
          SectionReader_Seek(offset, whence) /\ UNCHANGED <<xferVars, poolVars, argVars>>
    \/ \E plen \in PLens, off \in Offsets :
          SectionReader_ReadAt(plen, off) /\ UNCHANGED <<xferVars, poolVars, argVars>>
    \/ \E off \in Bases :
          NewOffsetWriter(off) /\ UNCHANGED <<xferVars, poolVars, argVars>>
    \/ \E plen \in PLens :
          OffsetWriter_Write(plen) /\ UNCHANGED <<xferVars, poolVars, argVars>>
    \/ \E plen \in PLens, off \in Offsets :
          OffsetWriter_WriteAt(plen, off) /\ UNCHANGED <<xferVars, poolVars, argVars>>
    \/ \E offset \in Offsets, whence \in Whences :
          OffsetWriter_Seek(offset, whence) /\ UNCHANGED <<xferVars, poolVars, argVars>>

SpecWindow == WindowInit /\ [][WindowNext]_vars

\* ------------------------------------------------------------------------
\* TeeReader
\* ------------------------------------------------------------------------
MaxTeeReads == 3

Zeros(k) == [i \in 1 .. k |-> 0]

\* p[:n], the slice teeReader.Read hands to the sink.
TeeSlice_Whole(p, n) == p

TeeSlice(p, n) == SubSeq(p, 1, n)

\* What Read returns once the sink's Write has returned (wn, we): inside the
\* if statement n and err are the Write's own results.
teeReader_Result_KeepSource(n, e, wn, we) == [n |-> n, err |-> e]

teeReader_Result(n, e, wn, we) ==
    IF we # nil THEN [n |-> wn, err |-> we] ELSE [n |-> n, err |-> e]

teeReader_Read(plen) ==
    /\ op = "TeeReader" /\ pc = "idle"
    /\ srcReads < MaxTeeReads
    /\ \E r \in ReadOutcomes(plen) :
        /\ BaseRead(plen, r.n, r.err)
        /\ LET p == Chunk(r.n) \o Zeros(plen - r.n)
               c == [NoCall EXCEPT !.op = "Read", !.a = plen, !.un = r.n, !.ue = r.err]
           IN  IF r.n > 0
               THEN \E w \in WriteOutcomes(Len(TeeSlice(p, r.n))) :
                       LET res == teeReader_Result(r.n, r.err, w.n, w.err)
                       IN  /\ DstWrite(TeeSlice(p, r.n), w.n, w.err)
                           /\ retN' = res.n
                           /\ retErr' = res.err
                           /\ b' = b \o SubSeq(p, 1, Min(plen, res.n))
                           /\ call' = [c EXCEPT !.called = TRUE, !.ca = srcPos,
                                                !.clen = Len(TeeSlice(p, r.n)),
                                                !.arg = TeeSlice(p, r.n),
                                                !.wn = w.n, !.we = w.err,
                                                !.n = res.n, !.err = res.err]
               ELSE /\ UNCHANGED dstVars
                    /\ retN' = r.n
                    /\ retErr' = r.err
                    /\ b' = b
                    /\ call' = [c EXCEPT !.n = r.n, !.err = r.err]
    /\ bufLen' = plen
    /\ UNCHANGED <<op, pc, nArg, limVars, copyVars, bCap, s, o>>

\* Source contents for the TeeReader: neighbouring bytes differ, so that a
\* change of order or a repeated byte shows.
TeeData == {[i \in 1 .. k |-> 1 + (i % 2)] : k \in 0 .. MaxLen}

\* TeeReader(r, w) over any source and a sink that accepts every Write or
\* one that may fail.
TeeInit ==
    /\ op = "TeeReader" /\ pc = "idle"
    /\ srcKind \in {"exact", "any"}
    /\ srcData \in TeeData
    /\ srcPos = 0 /\ srcStatus = "none" /\ srcReads = 0
    /\ lateRead = FALSE /\ srcWriterTo = FALSE
    /\ dstKind \in {"accept", "faulty"}
    /\ sinkData = <<>> /\ sinkWrites = 0 /\ sinkEOF = FALSE /\ sinkFailed = FALSE
    /\ limited = FALSE /\ lN = 0 /\ nArg = 0 /\ bufLen = 0
    /\ written = 0 /\ err = nil /\ retN = 0 /\ retErr = "none"
    /\ b = <<>> /\ bCap = 0 /\ path = "none" /\ delegate = NoDelegate
    /\ firstErr = nil /\ borrowed = 0
    /\ WinIdle /\ PoolIdle /\ ArgIdle

TeeNext ==
    \E plen \in PLens : teeReader_Read(plen) /\ UNCHANGED <<poolVars, argVars>>

SpecTee == TeeInit /\ [][TeeNext]_vars

\* ------------------------------------------------------------------------
\* discard.ReadFrom calls running concurrently over the shared blackHolePool
\* ------------------------------------------------------------------------
NCalls == 2

MaxPoolReads == 2

Calls == 1 .. NCalls

\* One discard.ReadFrom call: where it stands, its locals bufp (0 before
\* Get), n and err, what it returned, counts of its Get and Put calls, and
\* the number of bytes its source has delivered.
IdleCall == [pc |-> "get", bufp |-> 0, n |-> 0, err |-> "nil",
             retn |-> 0, reterr |-> "nil", gets |-> 0, puts |-> 0, got |-> 0]

\* A Read into the scratch buffer returns between 0 and len(*bufp) bytes
\* (here: none, or a full buffer) and any status.
ScratchReads == {0, BlackHoleSize} \X {nil, EOF, ErrSrc}

\* blackHolePool.Get(): a buffer that was Put before, or a new one from New
\* (sync.Pool may call New although buffers are in the pool).
discard_ReadFrom_Get(i) ==
    /\ rf[i].pc = "get"
    /\ \/ \E x \in blackHolePool.free :
            /\ blackHolePool' = [blackHolePool EXCEPT !.free = @ \ {x}]
            /\ rf' = [rf EXCEPT ![i].bufp = x, ![i].gets = @ + 1, ![i].pc = "read"]
       \/ /\ blackHolePool' = [blackHolePool EXCEPT !.made = @ + 1]
          /\ rf' = [rf EXCEPT ![i].bufp = blackHolePool.made + 1,
                              ![i].gets = @ + 1, ![i].pc = "read"]

\* Where the loop goes after a Read with status e: a non-nil status leads to
\* the Put and the return.
discard_ReadFrom_After_LeakOnError(e) ==
    IF e = nil THEN "read" ELSE IF e = EOF THEN "put" ELSE "return"

discard_ReadFrom_After(e) == IF e # nil THEN "put" ELSE "read"

\* readSize, err = r.Read(*bufp); n += int64(readSize)
discard_ReadFrom_Read(i) ==
    /\ rf[i].pc = "read"
    /\ \E out \in ScratchReads :
          /\ rf[i].n + out[1] <= MaxPoolReads * BlackHoleSize
          /\ rf' = [rf EXCEPT ![i].n = @ + out[1], ![i].err = out[2],
                              ![i].got = @ + out[1],
                              ![i].pc = discard_ReadFrom_After(out[2])]
    /\ UNCHANGED blackHolePool

\* blackHolePool.Put(bufp)
discard_ReadFrom_Put(i) ==
    /\ rf[i].pc = "put"
    /\ blackHolePool' = [blackHolePool EXCEPT !.free = @ \cup {rf[i].bufp}]
    /\ rf' = [rf EXCEPT ![i].puts = @ + 1, ![i].pc = "return"]

\* The error ReadFrom returns: EOF of the source is not an error.
discard_ReadFrom_err_KeepEOF(e) == e

discard_ReadFrom_err(e) == IF e = EOF THEN nil ELSE e

discard_ReadFrom_Return(i) ==
    /\ rf[i].pc = "return"
    /\ rf' = [rf EXCEPT ![i].retn = rf[i].n,
                        ![i].reterr = discard_ReadFrom_err(rf[i].err),
                        ![i].pc = "done"]
    /\ UNCHANGED blackHolePool

PoolInit ==
    /\ XferIdle /\ WinIdle /\ ArgIdle
    /\ blackHolePool = EmptyPool
    /\ rf = [i \in Calls |-> IdleCall]

PoolNext ==
    \/ \E i \in Calls : discard_ReadFrom_Get(i) /\ UNCHANGED <<xferVars, winVars, argVars>>
    \/ \E i \in Calls : discard_ReadFrom_Read(i) /\ UNCHANGED <<xferVars, winVars, argVars>>
    \/ \E i \in Calls : discard_ReadFrom_Put(i) /\ UNCHANGED <<xferVars, winVars, argVars>>
    \/ \E i \in Calls : discard_ReadFrom_Return(i) /\ UNCHANGED <<xferVars, winVars, argVars>>

SpecPool == PoolInit /\ [][PoolNext]_vars

\* ------------------------------------------------------------------------
\* Copy and CopyBuffer with a caller's buffer and a NopCloser around the
\* source; the staging loop records each iteration's calls in call.
\* ------------------------------------------------------------------------
MaxCloses == 2

\* The type NopCloser(r) returns, by whether r implements WriterTo.
NopCloser_Plain(isWriterTo) == "nopCloser"

NopCloser(isWriterTo) ==
    IF isWriterTo THEN "nopCloserWriterTo" ELSE "nopCloser"

\* Close of either wrapper: return nil.
nopCloser_Close ==
    /\ closer.kind # "none"
    /\ closer.closes < MaxCloses
    /\ closer' = [closer EXCEPT !.closes = @ + 1, !.err = nil]
    /\ UNCHANGED <<xferVars, winVars, poolVars, buf>>

\* buf != nil && len(buf) == 0
EmptyBuffer_NilToo(bf) == bf.len = 0

EmptyBuffer(bf) == ~bf.nil /\ bf.len = 0

\* CopyBuffer(dst, src, buf): panic on an empty buffer, else copyBuffer.
CopyBuffer ==
    /\ pc = "start"
    /\ op = "CopyBuffer"
    /\ IF EmptyBuffer(buf)
       THEN /\ pc' = "panicked"
            /\ UNCHANGED <<srcVars, dstVars, limVars, op, nArg, bufLen,
                           copyVars, retVars>>
       ELSE /\ copyBufferEnter(limited, lN)
            /\ UNCHANGED limVars

CopyBuffer_Return ==
    /\ pc = "copied"
    /\ op = "CopyBuffer"
    /\ retN' = written
    /\ retErr' = err
    /\ pc' = "done"
    /\ UNCHANGED <<srcVars, dstVars, limVars, op, nArg, bufLen, copyVars, b, bCap>>

\* One iteration of the staging loop, with its Read and Write on record.
copyBuffer_Observed ==
    \E nr \in 0..Len(srcData), er \in {nil, EOF, ErrSrc} :
        \E nw \in (0 - 1)..(nr + 1), ew \in {nil, EOF, ErrSink} :
            /\ copyBuffer_Iter(nr, er, nw, ew)
            /\ call' = [NoCall EXCEPT !.op = "copyBuffer", !.a = bufLen,
                                      !.pre = written, !.un = nr, !.ue = er,
                                      !.called = (nr > 0), !.clen = nr,
                                      !.arg = Chunk(nr), !.wn = nw, !.we = ew,
                                      !.n = written' - written, !.err = err']
            /\ UNCHANGED <<limVars, s, o>>

CopyInit ==
    /\ op \in {"Copy", "CopyBuffer"}
    /\ pc = "start"
    /\ srcKind \in {"exact", "any"}
    /\ srcData \in TeeData
    /\ srcPos = 0 /\ srcStatus = "none" /\ srcReads = 0
    /\ lateRead = FALSE
    /\ srcWriterTo \in BOOLEAN
    /\ dstKind \in {"accept", "faulty", "discard", "readerFrom"}
    /\ sinkData = <<>> /\ sinkWrites = 0 /\ sinkEOF = FALSE /\ sinkFailed = FALSE
    /\ limited = FALSE /\ lN = 0 /\ nArg = 0 /\ bufLen = 0
    /\ written = 0 /\ err = nil /\ retN = 0 /\ retErr = nil
    /\ b = <<>> /\ bCap = 0 /\ path = "none" /\ delegate = NoDelegate
    /\ firstErr = nil /\ borrowed = 0
    /\ WinIdle /\ PoolIdle
    /\ buf \in (IF op = "CopyBuffer"
                THEN {NilBuf} \cup {[nil |-> FALSE, len |-> k] : k \in 0 .. MaxP}
                ELSE {NilBuf})
    /\ closer \in {NoCloser, [NoCloser EXCEPT !.kind = NopCloser(srcWriterTo)]}

CopyNext ==
    \/ Copy /\ UNCHANGED <<winVars, poolVars, argVars>>
    \/ CopyBuffer /\ UNCHANGED <<winVars, poolVars, argVars>>
    \/ copyBuffer_Observed /\ UNCHANGED <<poolVars, argVars>>
    \/ discard_ReadFrom /\ UNCHANGED <<winVars, poolVars, argVars>>
    \/ Copy_Return /\ UNCHANGED <<winVars, poolVars, argVars>>
    \/ CopyBuffer_Return /\ UNCHANGED <<winVars, poolVars, argVars>>
    \/ nopCloser_Close

SpecCopy == CopyInit /\ [][CopyNext]_vars

\* ------------------------------------------------------------------------
\* The loops of Copy, discard.ReadFrom, ReadAll and ReadAtLeast under fair
\* scheduling: a call that can take a step takes one.
\* ------------------------------------------------------------------------
LiveOps == {"Copy", "ReadAll", "ReadAtLeast", "ReadFull"}

LiveInit ==
    /\ op \in LiveOps
    /\ pc = "start"
    /\ srcKind \in {"exact", "any"}
    /\ srcData \in TeeData
    /\ srcPos = 0 /\ srcStatus = "none" /\ srcReads = 0
    /\ lateRead = FALSE /\ srcWriterTo = FALSE
    /\ dstKind \in (IF op = "Copy" THEN {"accept", "faulty", "discard"} ELSE {"none"})
    /\ sinkData = <<>> /\ sinkWrites = 0 /\ sinkEOF = FALSE /\ sinkFailed = FALSE
    /\ nArg \in (IF op = "ReadAtLeast" THEN (0 - 1)..(MaxBuf + 1) ELSE {0})
    /\ limited = FALSE /\ lN = 0
    /\ bufLen \in (IF op \in {"ReadAtLeast", "ReadFull"} THEN 0..MaxBuf ELSE {0})
    /\ written = 0 /\ err = nil /\ retN = 0 /\ retErr = nil
    /\ b = <<>> /\ bCap = 0 /\ path = "none" /\ delegate = NoDelegate
    /\ firstErr = nil /\ borrowed = 0
    /\ WinIdle /\ PoolIdle /\ ArgIdle

LiveNext ==
    \/ Copy /\ UNCHANGED <<winVars, poolVars, argVars>>
    \/ copyBuffer /\ UNCHANGED <<winVars, poolVars, argVars>>
    \/ discard_ReadFrom /\ UNCHANGED <<winVars, poolVars, argVars>>
    \/ Copy_Return /\ UNCHANGED <<winVars, poolVars, argVars>>
    \/ ReadAll /\ UNCHANGED <<winVars, poolVars, argVars>>
    \/ ReadAtLeast /\ UNCHANGED <<winVars, poolVars, argVars>>
    \/ ReadFull /\ UNCHANGED <<winVars, poolVars, argVars>>
    \/ ReadAtLeast_Loop /\ UNCHANGED <<winVars, poolVars, argVars>>

SpecLive == LiveInit /\ [][LiveNext]_vars /\ WF_vars(LiveNext)

\* ------------------------------------------------------------------------
\* Claims about the windowed adapters (checked under SpecWindow).
\* Sums and differences in the formulas below are over the mathematical
\* integers unless Wrap is written.
\* ------------------------------------------------------------------------

\* C11: in every reachable state of a SectionReader, after any sequence of
\* Read, ReadAt and Seek calls with any offsets and origins (sums that
\* overflow the integer width included), base <= off.
C11_BaseLeOff == s.r => s.base <= s.off

\* A Seek from the end whose sum with limit overflowed has been rejected and
\* the cursor still sits above base after earlier moves.
C11_Witness ==
    /\ s.r /\ call.op = "Seek" /\ call.b = SeekEnd
    /\ call.a + s.limit > maxint64
    /\ call.err = errOffset /\ s.off > s.base

\* C12: every ReadAt a SectionReader issues to the underlying store, from
\* Read or from ReadAt, covers only absolute offsets a with base <= a and
\* a + len(p) <= limit.
C12_ReadsInsideWindow ==
    (s.r /\ call.called /\ call.op \in {"Read", "ReadAt"})
        => /\ s.base <= call.ca
           /\ call.ca + call.clen <= s.limit

\* A Read asked for more than the window has left and was cut to the rest.
C12_Witness ==
    /\ s.r /\ call.op = "Read" /\ call.called
    /\ call.clen < call.a /\ call.clen > 0
    /\ call.ca + call.clen = s.limit /\ call.ca > s.base

\* C13 (first half, as stated): NewSectionReader(r, base, length) sets
\* limit = base + length whenever that sum is representable, for every base
\* and every length, negative lengths included.
C13_Original ==
    (s.r /\ call.op = "NewSectionReader" /\ call.a + call.b \in Int64)
        => s.limit = call.a + call.b

\* The absolute offset the last Seek's arguments resolve to, computed from
\* the cursor the call found.
Resolved ==
    CASE call.b = SeekStart -> Wrap(call.a + s.base)
      [] call.b = SeekCurrent -> Wrap(call.a + call.pre)
      [] call.b = SeekEnd -> Wrap(call.a + s.limit)
      [] OTHER -> 0

ValidWhence == call.b \in {SeekStart, SeekCurrent, SeekEnd}

\* C14: SectionReader.Seek does not clamp against limit: any resolved
\* absolute offset >= base is accepted, the cursor is set to it and the value
\* returned is that offset minus base (an int64 difference); while the cursor
\* is at or beyond limit every Read returns (0, EOF) without a call of the
\* underlying store and leaves the cursor where it is.
C14_SeekBeyondLimit ==
    /\ (s.r /\ call.op = "Seek" /\ ValidWhence /\ Resolved >= s.base)
          => /\ call.err = nil
             /\ s.off = Resolved
             /\ call.n = Wrap(Resolved - s.base)
             /\ (Resolved - s.base \in Int64 => call.n = Resolved - s.base)
    /\ (s.r /\ call.op = "Read" /\ call.pre >= s.limit)
          => /\ call.n = 0 /\ call.err = EOF
             /\ ~call.called
             /\ s.off = call.pre

\* A window of length 5 whose cursor was moved beyond limit by a Seek, and a
\* Read that then reported end-of-stream.
C14_Witness ==
    /\ s.r /\ s.limit = s.base + 5 /\ s.off > s.limit
    /\ call.op = "Read" /\ call.a > 0 /\ call.n = 0 /\ call.err = EOF

\* A Seek from the end with offset 0 after some bytes were read.
C14_SeekEndAccepted ==
    /\ s.r /\ s.limit = s.base + 5
    /\ call.op = "Seek" /\ call.b = SeekEnd /\ call.a = 0
    /\ call.pre > s.base /\ call.pre < s.limit
    /\ s.off = s.limit /\ call.n = 5 /\ call.err = nil

\* The absolute offset a Seek with arguments (offset, whence) resolves to when
\* the adapter has the given base, cursor and end.
Target(offset, whence, base, cur, end) ==
    CASE whence = SeekStart -> Wrap(offset + base)
      [] whence = SeekCurrent -> Wrap(offset + cur)
      [] OTHER -> Wrap(offset + end)

\* C15: a rejected Seek leaves the adapter unchanged: SectionReader.Seek with
\* a whence other than start/current/end, OffsetWriter.Seek with a whence
\* other than start/current (relative-to-end included), and either Seek whose
\* resolved absolute offset is below base, returns (0, invalid-seek error)
\* and modifies nothing of the adapter.
C15_RejectedSeek ==
    [][call'.op = "Seek" =>
        /\ (s.r /\ \/ call'.b \notin {SeekStart, SeekCurrent, SeekEnd}
                   \/ Target(call'.a, call'.b, s.base, s.off, s.limit) < s.base)
              => /\ call'.n = 0
                 /\ call'.err \in {errWhence, errOffset}
                 /\ s' = s
        /\ (o.w /\ \/ call'.b \notin {SeekStart, SeekCurrent}
                   \/ Target(call'.a, call'.b, o.base, o.off, 0) < o.base)
              => /\ call'.n = 0
                 /\ call'.err \in {errWhence, errOffset}
                 /\ o' = o]_vars

\* An OffsetWriter whose cursor had advanced turned down a Seek relative to
\* the end.
C15_Witness ==
    /\ o.w /\ call.op = "Seek" /\ call.b = SeekEnd
    /\ call.n = 0 /\ call.err = errWhence
    /\ o.off = call.pre /\ o.off > o.base

\* A SectionReader whose cursor had advanced turned down a Seek to below base.
C15_SectionRejected ==
    /\ s.r /\ call.op = "Seek" /\ call.b = SeekCurrent
    /\ call.n = 0 /\ call.err = errOffset
    /\ s.off = call.pre /\ s.off > s.base /\ call.a + call.pre \in Int64

\* The size of the window as ReadAt computes it (an int64 difference).
WindowSize == Wrap(s.limit - s.base)

\* C16: SectionReader.ReadAt(p, off): if off < 0 or off >= limit - base it
\* returns (0, EOF) without calling the underlying store; if off + len(p)
\* crosses the window end, the store is asked for exactly the bytes from
\* base + off up to limit, a nil status from it is replaced by EOF and a
\* non-nil status is returned unchanged; if the request lies wholly inside
\* the window the store is asked for len(p) bytes at base + off and its
\* result is returned unchanged.
C16_ReadAtCases ==
    (s.r /\ call.op = "ReadAt") =>
        IF call.b < 0 \/ call.b >= WindowSize
        THEN call.n = 0 /\ call.err = EOF /\ ~call.called
        ELSE /\ call.called
             /\ call.ca = s.base + call.b
             /\ call.n = call.un
             /\ IF call.b + call.a > WindowSize
                THEN /\ call.ca + call.clen = s.limit
                     /\ call.err = IF call.ue = nil THEN EOF ELSE call.ue
                ELSE /\ call.clen = call.a
                     /\ call.err = call.ue

\* A ReadAt that crossed the window end was cut short, the store filled the
\* shortened buffer with a nil status, and the caller got EOF.
C16_Witness ==
    /\ s.r /\ call.op = "ReadAt" /\ call.called /\ call.b > 0
    /\ call.clen < call.a /\ call.clen > 0
    /\ call.un = call.clen /\ call.ue = nil /\ call.err = EOF

\* C17 as stated: in every reachable state of an OffsetWriter, after any
\* sequence of Write, WriteAt and Seek calls (writes that advance the cursor
\* up to the top of the integer range included), off >= base, so that every
\* sequential Write is issued at base + local offset with local offset >= 0.
C17_Original ==
    o.w => /\ o.off >= o.base
           /\ (call.op = "Write" /\ call.called) => call.ca >= o.base

\* ------------------------------------------------------------------------
\* Claims about the TeeReader (checked under SpecTee).
\* ------------------------------------------------------------------------

\* C18: for every Read through a TeeReader in which the source returns n > 0
\* bytes, exactly those n bytes are passed to the sink in a single Write
\* within that Read (and no Write is made when n = 0); hence after any
\* sequence of Reads whose sink writes succeed, the bytes received by the
\* sink equal the bytes returned to the caller, in the same order.
C18_TeeMirrors ==
    [][(op = "TeeReader" /\ call'.op = "Read") =>
        /\ sinkWrites' = sinkWrites + (IF call'.un > 0 THEN 1 ELSE 0)
        /\ call'.called = (call'.un > 0)
        /\ call'.un > 0 =>
              /\ srcPos' = srcPos + call'.un
              /\ call'.arg = SubSeq(srcData, srcPos + 1, srcPos + call'.un)
        /\ ~sinkFailed' => sinkData' = b']_vars

\* Three bytes read through the TeeReader in more than one Read: the sink
\* holds exactly the three bytes and the last Read reported nil or EOF.
C18_Witness ==
    /\ op = "TeeReader" /\ Len(srcData) = 3 /\ srcReads >= 2
    /\ ~sinkFailed /\ sinkWrites >= 2
    /\ b = srcData /\ sinkData = srcData
    /\ retErr \in {nil, EOF}

\* C19: in a TeeReader Read, a sink Write that returns an error makes the
\* Read return that error in place of the source's own status (nil, EOF or
\* an error); when the Write returns no error, or no Write is made, the
\* source's (n, status) pair is returned unchanged.
C19_TeeStatus ==
    (op = "TeeReader" /\ call.op = "Read") =>
        IF call.called /\ call.we # nil
        THEN retErr = call.we /\ call.err = call.we
        ELSE /\ retN = call.un /\ retErr = call.ue
             /\ call.n = call.un /\ call.err = call.ue

\* The source ended with bytes and EOF, the sink's Write failed, and the Read
\* reported the sink's failure.
C19_Witness ==
    /\ op = "TeeReader" /\ call.op = "Read" /\ call.called
    /\ call.un > 0 /\ call.ue = EOF
    /\ call.we = ErrSink /\ retErr = ErrSink

\* ------------------------------------------------------------------------
\* Claims about the scratch-buffer pool (checked under SpecPool).
\* ------------------------------------------------------------------------

\* The call has taken a scratch buffer from the pool and not put it back.
Holding(i) == rf[i].gets > rf[i].puts

\* C20: Discard.ReadFrom borrows one scratch buffer from the shared pool,
\* reads the source until EOF (returning (total bytes read, nil)) or another
\* failure (returning (total, that failure)), and puts the buffer back exactly
\* once on every exit path; with calls draining concurrently no scratch
\* buffer is held by two calls at the same time, and none remains borrowed
\* once all calls have returned.
C20_ScratchBufferDiscipline ==
    /\ \A i \in DOMAIN rf :
          /\ rf[i].gets = (IF rf[i].pc = "get" THEN 0 ELSE 1)
          /\ rf[i].puts = (IF rf[i].pc \in {"return", "done"} THEN 1 ELSE 0)
          /\ Holding(i) => rf[i].bufp \notin blackHolePool.free
          /\ rf[i].pc = "done" =>
                /\ rf[i].err # nil
                /\ rf[i].retn = rf[i].got
                /\ rf[i].reterr = (IF rf[i].err = EOF THEN nil ELSE rf[i].err)
    /\ \A i, j \in DOMAIN rf :
          (i # j /\ Holding(i) /\ Holding(j)) => rf[i].bufp # rf[j].bufp
    /\ (rf # <<>> /\ \A i \in DOMAIN rf : rf[i].pc = "done")
          => blackHolePool.free = 1 .. blackHolePool.made

\* Every call has returned, two of them held different buffers at the same
\* time, one drained its source to EOF and one stopped on a failure.
C20_Witness ==
    /\ rf # <<>>
    /\ \A i \in DOMAIN rf : rf[i].pc = "done"
    /\ \E i, j \in DOMAIN rf : rf[i].bufp # rf[j].bufp
    /\ \E i \in DOMAIN rf : rf[i].reterr = nil /\ rf[i].retn > 0
    /\ \E i \in DOMAIN rf : rf[i].reterr = ErrSrc
    /\ blackHolePool.made >= 2

\* ------------------------------------------------------------------------
\* Claims about the staging loop, CopyBuffer and NopCloser (checked under
\* SpecCopy). call holds the Read and the Write of the last iteration.
\* ------------------------------------------------------------------------

\* The last iteration's Write took fewer bytes than given, with a nil error.
ShortWrite ==
    /\ call.op = "copyBuffer" /\ call.called
    /\ call.we = nil /\ 0 <= call.wn /\ call.wn < call.clen

\* The last iteration's Write reported a count below 0 or above len(p).
InvalidCount ==
    /\ call.op = "copyBuffer" /\ call.called
    /\ (call.wn < 0 \/ call.wn > call.clen)

Stopped == pc \in {"copied", "done"}

\* C21 as stated: a sink Write that returns fewer bytes than it was given
\* without an explicit failure is treated as an invalid-write-count failure.
C21_Original == ShortWrite => err = errInvalidWrite

\* C21: in Copy's staging loop a sink Write that returns fewer bytes than it
\* was given (a count from 0 to len(p) - 1) with a nil error stops the
\* transfer with the short-write error ErrShortWrite; the bytes it did take
\* are counted.
C21_ShortWrite ==
    ShortWrite =>
        /\ Stopped
        /\ err = ErrShortWrite
        /\ written = call.pre + call.wn
        /\ pc = "done" => (retErr = ErrShortWrite /\ retN = written)

\* A Write given two bytes took one without an error after an earlier Write
\* went through, and Copy returned the short-write error.
C21_Witness ==
    /\ ShortWrite /\ pc = "done" /\ op = "Copy"
    /\ call.clen = 2 /\ call.wn = 1 /\ call.pre > 0
    /\ retErr = ErrShortWrite /\ retN = call.pre + 1

\* C22: in Copy's staging loop a sink Write that reports more bytes written
\* than it was given, or a negative count, stops the transfer with the
\* invalid-write-count error when the sink reported no error of its own (the
\* sink's own error otherwise), and contributes 0 to the returned count.
C22_InvalidCount ==
    InvalidCount =>
        /\ Stopped
        /\ err = (IF call.we = nil THEN errInvalidWrite ELSE call.we)
        /\ written = call.pre
        /\ pc = "done" => (retErr = err /\ retN = call.pre)

\* A Write reported one byte more than it was given, without an error, after
\* an earlier Write went through; Copy returned the earlier count.
C22_Witness ==
    /\ InvalidCount /\ pc = "done"
    /\ call.wn = call.clen + 1 /\ call.we = nil /\ call.pre > 0
    /\ retErr = errInvalidWrite /\ retN = call.pre

\* C23: CopyBuffer called with a non-nil buffer of length zero panics before
\* any Read, Write or fast-path delegate is invoked, for every source and
\* sink, those that offer a fast path included; a nil buffer never panics.
C23_EmptyBufferPanics ==
    op = "CopyBuffer" =>
        /\ (~buf.nil /\ buf.len = 0 /\ pc # "start") =>
              /\ pc = "panicked"
              /\ srcReads = 0 /\ sinkWrites = 0
              /\ path = "none" /\ delegate = NoDelegate /\ borrowed = 0
        /\ pc = "panicked" => (~buf.nil /\ buf.len = 0)

\* CopyBuffer panicked on an empty buffer although the source has WriteTo and
\* the sink has ReadFrom.
C23_Witness ==
    /\ op = "CopyBuffer" /\ pc = "panicked"
    /\ ~buf.nil /\ buf.len = 0
    /\ srcWriterTo /\ dstKind = "readerFrom" /\ Len(srcData) > 0

\* A nil buffer took the staging loop with the default buffer size, and a
\* buffer of the caller was used at its own length.
C23_OtherBuffers ==
    /\ op = "CopyBuffer" /\ path = "staging"
    /\ bufLen = (IF buf.nil THEN DefaultCopySize ELSE buf.len)

\* C24: NopCloser(r) has WriteTo if and only if r implements WriterTo and
\* then forwards it to r: Copy(dst, NopCloser(r)) delegates to r.WriteTo(dst)
\* exactly when Copy(dst, r) would, and otherwise goes to the sink's ReadFrom
\* or the staging loop; Close returns nil on every call and touches nothing
\* of r.
C24_NopCloser ==
    /\ [](closer.kind # "none" =>
            /\ (closer.kind = "nopCloserWriterTo") = srcWriterTo
            /\ closer.closes > 0 => closer.err = nil
            /\ pc \in {"loop", "readfrom", "copied", "done"} =>
                  path = (IF srcWriterTo THEN "WriteTo"
                          ELSE IF dstKind \in {"discard", "readerFrom"} THEN "ReadFrom"
                          ELSE "staging")
            /\ (path = "WriteTo" /\ pc = "done") =>
                  (retN = delegate.n /\ retErr = delegate.err))
    /\ [][closer'.closes # closer.closes =>
            /\ closer'.closes = closer.closes + 1
            /\ closer'.err = nil
            /\ UNCHANGED <<xferVars, winVars, poolVars, buf>>]_vars

\* A source with WriteTo behind a NopCloser: Copy went through WriteTo, and
\* the wrapper was closed twice.
C24_Witness ==
    /\ closer.kind = "nopCloserWriterTo" /\ closer.closes = 2 /\ closer.err = nil
    /\ op = "Copy" /\ pc = "done" /\ path = "WriteTo"
    /\ dstKind = "readerFrom" /\ retN = delegate.n

\* The last iteration met a failure or a status: a Write with an error or
\* with a count other than len(p), or a Read with a non-nil status.
IterationFailed ==
    /\ call.op = "copyBuffer"
    /\ \/ call.ue # nil
       \/ call.called /\ (call.we # nil \/ call.wn # call.clen)

\* C26: Copy's staging loop processes data before status: the n > 0 bytes a
\* Read returns, with EOF or an error in the same call or without, are
\* written to the sink in that iteration; after the first failure (sink
\* failure, short or invalid write, source status) no further Read or Write
\* is issued; the returned count is the number of bytes the sink took with a
\* valid count and never exceeds the number of bytes the source delivered.
C26_DataBeforeStatus ==
    /\ [](path = "staging" =>
            /\ call.op = "copyBuffer" =>
                  /\ call.called = (call.un > 0)
                  /\ call.un > 0 =>
                        call.arg = SubSeq(srcData, srcPos - call.un + 1, srcPos)
            /\ IterationFailed => Stopped
            /\ written <= srcPos
            /\ ~InvalidCount => written = Len(sinkData)
            /\ pc = "done" => retN = written)
    /\ [][(path = "staging" /\ Stopped) =>
            (srcReads' = srcReads /\ sinkWrites' = sinkWrites)]_vars

\* A Read returned bytes together with an error after an earlier iteration;
\* the bytes reached the sink and Copy returned the error with all bytes
\* counted.
C26_Witness ==
    /\ path = "staging" /\ pc = "done" /\ op = "Copy"
    /\ call.op = "copyBuffer" /\ call.un > 0 /\ call.ue = ErrSrc
    /\ call.called /\ call.we = nil /\ call.wn = call.clen
    /\ call.pre > 0 /\ retN = call.pre + call.un
    /\ sinkData = SubSeq(srcData, 1, retN) /\ retErr = ErrSrc

\* ------------------------------------------------------------------------
\* A further claim about the windowed adapters (checked under SpecWindow).
\* ------------------------------------------------------------------------

\* C25: SectionReader.ReadAt and OffsetWriter.WriteAt neither read nor modify
\* the adapter's off field: a random-access call leaves the adapter as it
\* was, so that the sequential calls around it find the cursor they left,
\* and its target offset is its argument plus base (an int64 sum), whatever
\* the cursor is.
C25_RandomAccessFrame ==
    /\ [][call'.op \in {"ReadAt", "WriteAt"} => (s' = s /\ o' = o)]_vars
    /\ []((o.w /\ call.op = "WriteAt") =>
             /\ call.called
             /\ call.ca = Wrap(call.b + o.base)
             /\ call.clen = call.a)
    /\ []((s.r /\ call.op = "ReadAt" /\ call.called) =>
             call.ca = Wrap(call.b + s.base))

\* A WriteAt on an OffsetWriter whose cursor had moved away from base, at a
\* local offset other than the cursor's.
C25_Witness ==
    /\ o.w /\ call.op = "WriteAt" /\ call.called
    /\ o.off > o.base /\ o.off = call.pre
    /\ call.b >= 0 /\ call.b # o.off - o.base
    /\ call.ca = o.base + call.b /\ call.un = call.clen /\ call.clen > 0

\* A ReadAt on a SectionReader whose cursor had moved away from base.
C25_SectionWitness ==
    /\ s.r /\ call.op = "ReadAt" /\ call.called
    /\ s.off > s.base /\ call.ca = s.base + call.b /\ call.ca # s.off

\* ------------------------------------------------------------------------
\* Termination of the loops (checked under SpecLive).
\* ------------------------------------------------------------------------

\* The source has returned a non-nil status (EOF or an error).
SourceEnded == srcStatus \notin {"none", nil}

\* The min of a ReadAtLeast or ReadFull under way.
MinBytes == IF op = "ReadFull" THEN bufLen ELSE nArg

\* C27: Copy's staging loop, ReadAll and discard.ReadFrom each terminate
\* once the source has returned a non-nil status, ReadAtLeast (and ReadFull)
\* terminates once the source has returned a non-nil status or has delivered
\* min bytes, and none of them issues a source Read after a non-nil status.
C27_LoopsTerminate ==
    /\ [](~lateRead)
    /\ SourceEnded ~> (pc = "done")
    /\ (op \in {"ReadAtLeast", "ReadFull"} /\ srcPos >= MinBytes) ~> (pc = "done")

\* ReadAtLeast returned after the source, two Reads into the call, had
\* delivered min bytes with a nil status.
C27_Witness ==
    /\ op = "ReadAtLeast" /\ pc = "done" /\ nArg >= 2
    /\ srcReads >= 2 /\ srcStatus = nil /\ srcPos >= nArg /\ ~lateRead

\* Copy returned after its source ended in an error.
C27_CopyEnded ==
    /\ op = "Copy" /\ pc = "done" /\ srcReads >= 2
    /\ srcStatus = ErrSrc /\ retErr = ErrSrc /\ ~lateRead

====
